---- MODULE Spec2Model ----
(***************************************************************************)
(* A model of icosa.c: the bouncing wireframe solid over a checkerboard    *)
(* floor.  The module holds                                                *)
(*   - binary32 arithmetic (the program's `float`), bit-exact, built from  *)
(*     integer operations that stay below 2^31;                            *)
(*   - main(): start-up, the frame loop with its physics step, the signal  *)
(*     handler and the exit paths (specification Spec);                    *)
(*   - compute_floor() over a range of geometries (SpecFloor);             *)
(*   - fb_set(), draw_line(), fb_clear() and render() (SpecFB).            *)
(***************************************************************************)
EXTENDS Integers, Sequences, FiniteSets, TLC

(***************************************************************************)
(* binary32.  A float is [s, m, e] standing for (-1)^s * m * 2^e with      *)
(* m = 0 (zero) or 2^23 <= m < 2^24.  Every operation rounds to nearest,   *)
(* ties to even, as the hardware does.  Exponents of the values the        *)
(* program computes stay far from the subnormal and overflow ranges        *)
(* (FloatsNormal).  The operations are functions, so that an operand is    *)
(* evaluated once, before the operation.                                   *)
(***************************************************************************)
P23 == 2^23
P24 == 2^24
P12 == 2^12

Float == [s : {0, 1}, m : Nat, e : Int]
FZero == [s |-> 0, m |-> 0, e |-> 0]

BitLen[n \in Nat] == IF n = 0 THEN 0 ELSE 1 + BitLen[n \div 2]

\* Round M * 2^E (M < 2^31; a lost fraction is OR-ed into M's lowest bit by the
\* caller, which keeps M >= 2^25 then) to 24 significant bits.
FRound[s \in {0, 1}, M \in Nat, E \in Int] ==
  IF M = 0 THEN FZero
  ELSE LET k == BitLen[M] - 24 IN
       IF k <= 0 THEN [s |-> s, m |-> M * 2^(-k), e |-> E + k]
       ELSE LET q  == M \div 2^k
                r  == M % 2^k
                h  == 2^(k-1)
                q1 == IF r > h \/ (r = h /\ q % 2 = 1) THEN q + 1 ELSE q
            IN IF q1 = P24 THEN [s |-> s, m |-> P23, e |-> E + k + 1]
                           ELSE [s |-> s, m |-> q1, e |-> E + k]

\* (float)n for an int n, |n| < 2^31
IToF(n) == IF n < 0 THEN FRound[1, -n, 0] ELSE FRound[0, n, 0]

FNeg(a) == IF a.m = 0 THEN a ELSE [a EXCEPT !.s = 1 - a.s]

\* fabsf
FAbs(a) == [a EXCEPT !.s = 0]

\* |a| < |b|
MagLt[a \in Float, b \in Float] ==
  IF b.m = 0 THEN FALSE
  ELSE IF a.m = 0 THEN TRUE
  ELSE a.e < b.e \/ (a.e = b.e /\ a.m < b.m)

FLtF[a \in Float, b \in Float] ==
  IF a.m = 0 /\ b.m = 0 THEN FALSE
  ELSE IF a.s = 1 /\ b.s = 0 THEN TRUE
  ELSE IF a.s = 0 /\ b.s = 1 THEN FALSE
  ELSE IF a.s = 0 THEN MagLt[a, b] ELSE MagLt[b, a]

\* a < b
FLt(a, b) == FLtF[a, b]

\* a <= b
FLe(a, b) == ~FLtF[b, a]

\* fminf
FMin(a, b) == IF FLtF[b, a] THEN b ELSE a

OrSticky[q \in Nat, lost \in BOOLEAN] == IF lost /\ q % 2 = 0 THEN q + 1 ELSE q

FAddF[a \in Float, b \in Float] ==
  IF a.m = 0 THEN b
  ELSE IF b.m = 0 THEN a
  ELSE LET big   == IF MagLt[a, b] THEN b ELSE a
           small == IF MagLt[a, b] THEN a ELSE b
           d     == big.e - small.e
           A     == big.m * 8
           B0    == small.m * 8
           B     == IF d > 27 THEN 1
                    ELSE OrSticky[B0 \div 2^d, B0 % 2^d # 0]
           sum   == IF big.s = small.s THEN A + B ELSE A - B
       IN FRound[big.s, sum, big.e - 3]

\* a + b
FAdd(a, b) == FAddF[a, b]

\* a - b
FSub(a, b) == FAddF[a, FNeg(b)]

FMulF[a \in Float, b \in Float] ==
  IF a.m = 0 \/ b.m = 0 THEN FZero
  ELSE LET a1  == a.m \div P12
           a0  == a.m % P12
           b1  == b.m \div P12
           b0  == b.m % P12
           mid == a1 * b0 + a0 * b1
           lof == a0 * b0 + (mid % P12) * P12
           lo  == lof % P24
           hi  == a1 * b1 + mid \div P12 + lof \div P24
           M   == OrSticky[2 * (hi * 2^5 + lo \div 2^19), lo % 2^19 # 0]
       IN FRound[(a.s + b.s) % 2, M, a.e + b.e + 18]

\* a * b
FMul(a, b) == FMulF[a, b]

\* n more quotient bits of (q + r/mb)
DivBits[q \in Nat, r \in Nat, mb \in Nat, n \in Nat] ==
  IF n = 0 THEN <<q, r>>
  ELSE IF 2 * r >= mb THEN DivBits[2 * q + 1, 2 * r - mb, mb, n - 1]
                      ELSE DivBits[2 * q, 2 * r, mb, n - 1]

\* b is never zero where the program divides
FDivF[a \in Float, b \in Float] ==
  IF a.m = 0 THEN FZero
  ELSE LET qr == DivBits[a.m \div b.m, a.m % b.m, b.m, 26]
           M  == OrSticky[2 * qr[1], qr[2] # 0]
       IN FRound[(a.s + b.s) % 2, M, a.e - b.e - 27]

\* a / b
FDiv(a, b) == FDivF[a, b]

\* the square root of v, digit by digit: i bit pairs of v, then z zero pairs
SqrtBits[root \in Nat, rem \in Nat, v \in Nat, i \in Nat, z \in Nat] ==
  IF i = 0 /\ z = 0 THEN <<root, rem>>
  ELSE LET pair == IF i > 0 THEN (v \div 4^(i-1)) % 4 ELSE 0
           r4   == 4 * rem + pair
           t    == 4 * root + 1
           i1   == IF i > 0 THEN i - 1 ELSE 0
           z1   == IF i > 0 THEN z ELSE z - 1
       IN IF r4 >= t THEN SqrtBits[2 * root + 1, r4 - t, v, i1, z1]
                     ELSE SqrtBits[2 * root, r4, v, i1, z1]

FSqrtF[a \in Float] ==
  IF a.m = 0 THEN FZero
  ELSE LET odd == a.e % 2 = 1
           v   == IF odd THEN 2 * a.m ELSE a.m
           e2  == IF odd THEN a.e - 1 ELSE a.e
           rr  == SqrtBits[0, 0, v, 13, 14]
           M   == OrSticky[2 * rr[1], rr[2] # 0]
       IN FRound[0, M, (e2 \div 2) - 15]

\* sqrtf, a >= 0
FSqrt(a) == FSqrtF[a]

FFloorF[a \in Float] ==
  IF a.m = 0 THEN 0
  ELSE IF a.e >= 0 THEN (IF a.s = 1 THEN -1 ELSE 1) * a.m * 2^a.e
  ELSE LET sh == -a.e
           q  == IF sh > 30 THEN 0 ELSE a.m \div 2^sh
           ex == sh <= 30 /\ a.m % 2^sh = 0
       IN IF a.s = 0 THEN q ELSE IF ex THEN -q ELSE -(q + 1)

\* (int)floorf(a)
FFloorInt(a) == FFloorF[a]

(***************************************************************************)
(* Bounds of the model and constants of the program.                       *)
(***************************************************************************)
MinCols == 20
MinRows == 10
MaxRows == 10         \* main(): terminal heights MinRows-1 .. MaxRows
MaxFloorCols == 24    \* compute_floor alone: widths  MinCols .. MaxFloorCols
MaxFloorRows == 14    \* compute_floor alone: heights MinRows .. MaxFloorRows
MaxOff == 1           \* draw_line: endpoints up to MaxOff dots outside the framebuffer

Signals == {"SIGTERM", "SIGINT"}

\* float literals: a decimal literal is the float nearest to it, which is what the
\* correctly rounded quotient of two exactly representable integers gives
F0_55 == FDiv(IToF(55), IToF(100))
F0_82 == FDiv(IToF(82), IToF(100))
F0_70 == FDiv(IToF(70), IToF(100))
F0_5  == FDiv(IToF(1), IToF(2))
F1    == IToF(1)
F2    == IToF(2)
F4    == IToF(4)
F8    == IToF(8)
F22   == IToF(22)

damp         == F0_82
squash_decay == F0_70
fall_frames  == F22

VARIABLES
  pc,           \* where main() stands
  ws,           \* what ioctl(TIOCGWINSZ) answers: [ok, col, row]
  cw, ch,       \* cell columns and rows
  horizon,
  fbPtr, rbufPtr, floorPtr,   \* "unset", "null" or "ok"
  fb,           \* the dot framebuffer, cell index -> byte
  floor_map,    \* cell index -> 0 sky, 1 dark, 2 light
  rbuf,         \* what render() last wrote: lines of byte chunks
  row,          \* compute_floor's loop variable
  screen,       \* "main" or "alt" (alternate buffer, cursor hidden)
  tios,         \* terminal mode: "orig", "raw", or "zeroed"
  origSaved,    \* orig_tios holds the terminal's mode
  phys,         \* [pos, vel, squash, grav, restart_vel, max_bounce]
  impact,       \* the last physics step: "none", "bounce" or "restart"
  rendered,     \* a frame has been written
  nullAccess,   \* a read or write went through a null pointer
  inputReady,   \* a byte is readable on stdin
  disp,         \* signal -> "dfl" or "handler"
  hstack,       \* running signal handlers, innermost last: [sig, hpc]
  cleanups,     \* calls of cleanup_terminal so far
  status,       \* "running", "exit0", "exit1" or "killed"
  killsig,      \* the signal that killed the process, or "none"
  calls,        \* the points the last draw_line passed to fb_set, in order
  ends,         \* the endpoints of the last draw_line: <<x0, y0, x1, y1>>
  lineDone,     \* the last draw_line reached its break
  fbOverrun     \* fb_set wrote outside the framebuffer

geomVars   == <<ws, cw, ch>>
bufVars    == <<fbPtr, rbufPtr, fb, rbuf>>
floorVars  == <<horizon, floorPtr, floor_map, row>>
ttyVars    == <<screen, tios, origSaved, cleanups>>
physVars   == <<phys, impact>>
sigVars    == <<disp, hstack>>
endVars    == <<status, killsig>>
lineVars   == <<calls, ends, lineDone, fbOverrun>>
vars == <<pc, geomVars, bufVars, floorVars, ttyVars, physVars, rendered, nullAccess,
          inputReady, sigVars, endVars, lineVars>>

pw == cw * 2
ph == ch * 4
Cells == 0 .. (cw * ch - 1)
NoPhys == [pos |-> FZero, vel |-> FZero, squash |-> FZero, grav |-> FZero,
           restart_vel |-> FZero, max_bounce |-> FZero]

Running == status = "running"
Ended   == status # "running"

\* What no step before the frame loop has touched yet.
InitCommon ==
  /\ horizon = 0
  /\ floorPtr = "unset" /\ floor_map = <<>> /\ rbuf = <<>>
  /\ row = 0
  /\ screen = "main" /\ tios = "orig" /\ origSaved = FALSE /\ cleanups = 0
  /\ phys = NoPhys /\ impact = "none"
  /\ rendered = FALSE /\ nullAccess = FALSE
  /\ inputReady = FALSE
  /\ hstack = <<>>
  /\ status = "running" /\ killsig = "none"
  /\ calls = <<>> /\ ends = <<0, 0, 0, 0>> /\ lineDone = TRUE /\ fbOverrun = FALSE

\* main() at line 181, started without options, in a terminal one column short
\* or just wide enough, of any height up to MaxRows, its size known or not
Init ==
  /\ pc = "sigaction"
  /\ ws \in [ok : BOOLEAN, col : (MinCols - 1) .. MinCols, row : (MinRows - 1) .. MaxRows]
  /\ cw = 0 /\ ch = 0
  /\ fbPtr = "unset" /\ rbufPtr = "unset" /\ fb = <<>>
  /\ disp = [s \in Signals |-> "dfl"]
  /\ InitCommon

(***************************************************************************)
(* cleanup_terminal and the signal handler                                 *)
(***************************************************************************)
\* cleanup_terminal: leave the alternate screen, show the cursor, and set the
\* terminal mode from orig_tios (all zero until tcgetattr has filled it)
cleanup_terminal ==
  /\ screen' = "main"
  /\ tios' = IF origSaved THEN "orig" ELSE "zeroed"
  /\ cleanups' = cleanups + 1
  /\ UNCHANGED origSaved

Exit(code) ==
  /\ status' = code
  /\ UNCHANGED killsig

KillAsExit(sig) ==
  /\ status' = "exit0"
  /\ UNCHANGED killsig

Kill(sig) ==
  /\ status' = "killed"
  /\ killsig' = sig

InHandler(sig) == \E i \in DOMAIN hstack : hstack[i].sig = sig

\* A SIGTERM or SIGINT reaches the process.  With the default disposition it kills;
\* otherwise on_signal starts, the disposition falls back to the default
\* (SA_RESETHAND) and the signal stays blocked while its handler runs (a further
\* instance would only stay pending until the handler's own raise).
Signal(sig) ==
  /\ Running
  /\ ~InHandler(sig)
  /\ IF disp[sig] = "dfl"
       THEN /\ Kill(sig)
            /\ UNCHANGED sigVars
       ELSE /\ disp' = [disp EXCEPT ![sig] = "dfl"]
            /\ hstack' = Append(hstack, [sig |-> sig, hpc |-> "cleanup"])
            /\ UNCHANGED endVars
  /\ UNCHANGED <<pc, geomVars, bufVars, floorVars, ttyVars, physVars, rendered,
                 nullAccess, inputReady, lineVars>>

Top == hstack[Len(hstack)]

\* on_signal, line 59
HandlerCleanup ==
  /\ Running /\ hstack # <<>> /\ Top.hpc = "cleanup"
  /\ cleanup_terminal
  /\ hstack' = [hstack EXCEPT ![Len(hstack)].hpc = "raise"]
  /\ UNCHANGED <<pc, geomVars, bufVars, floorVars, physVars, rendered, nullAccess,
                 inputReady, disp, endVars, lineVars>>

\* on_signal, lines 60-62: the default disposition, then raise: the signal is
\* delivered when the handler returns and kills the process
HandlerRaise ==
  /\ Running /\ hstack # <<>> /\ Top.hpc = "raise"
  /\ Kill(Top.sig)
  /\ disp' = [disp EXCEPT ![Top.sig] = "dfl"]
  /\ UNCHANGED <<pc, geomVars, bufVars, floorVars, ttyVars, physVars, rendered,
                 nullAccess, inputReady, hstack, lineVars>>

\* a byte arrives on stdin; nothing ever reads it
KeyPress ==
  /\ Running /\ ~inputReady
  /\ inputReady' = TRUE
  /\ UNCHANGED <<pc, geomVars, bufVars, floorVars, ttyVars, physVars, rendered,
                 nullAccess, sigVars, endVars, lineVars>>

\* main() runs when no handler does
MainAt(p) == Running /\ hstack = <<>> /\ pc = p

(***************************************************************************)
(* main(): start-up                                                        *)
(***************************************************************************)
\* lines 181-186
InstallHandlers ==
  /\ MainAt("sigaction")
  /\ disp' = [s \in Signals |-> "handler"]
  /\ pc' = "geometry"
  /\ UNCHANGED <<geomVars, bufVars, floorVars, ttyVars, physVars, rendered, nullAccess,
                 inputReady, hstack, endVars, lineVars>>

\* lines 188-195
Geometry ==
  /\ MainAt("geometry")
  /\ IF ~ws.ok \/ ws.col < MinCols \/ ws.row < MinRows
       THEN /\ Exit("exit1")
            /\ UNCHANGED <<pc, cw, ch>>
       ELSE /\ cw' = ws.col
            /\ ch' = ws.row
            /\ pc' = "alloc"
            /\ UNCHANGED endVars
  /\ UNCHANGED <<ws, bufVars, floorVars, ttyVars, physVars, rendered, nullAccess,
                 inputReady, sigVars, lineVars>>

\* lines 197-199: calloc and malloc may each fail
Alloc ==
  /\ MainAt("alloc")
  /\ \E f \in {"ok", "null"}, r \in {"ok", "null"} :
       /\ fbPtr' = f
       /\ rbufPtr' = r
       /\ fb' = IF f = "ok" THEN [i \in Cells |-> 0] ELSE fb
       /\ IF f = "null" \/ r = "null"
            THEN Exit("exit1") /\ UNCHANGED pc
            ELSE pc' = "floor" /\ UNCHANGED endVars
  /\ UNCHANGED <<geomVars, rbuf, floorVars, ttyVars, physVars, rendered, nullAccess,
                 inputReady, sigVars, lineVars>>

(***************************************************************************)
(* compute_floor                                                           *)
(***************************************************************************)
\* line 94: 0 -> 1 from the horizon to the bottom
FloorT(rw, hz, rows) == FDiv(IToF(rw - hz), IToF(rows - hz))

FloorZFlat(rw, hz, rows) == FloorT(rw, hz, rows)

\* line 95: perspective depth
FloorZ(rw, hz, rows) == FDiv(F1, FloorT(rw, hz, rows))

\* lines 97-100: the tile of one cell: 1 dark, 2 light
FloorTile(col, cols, z) ==
  LET x  == FMul(FMul(FSub(FDiv(IToF(col), IToF(cols)), F0_5), z), F8)
      ix == FFloorInt(x)
      iz == FFloorInt(FMul(z, F4))
  IN IF (ix + iz) % 2 = 1 THEN 1 ELSE 2

\* lines 94-101: one pass of the row loop's body
FloorRowFill(map, rw, cols, hz, rows) ==
  LET z == FloorZ(rw, hz, rows)
  IN [i \in DOMAIN map |->
        IF i \div cols = rw THEN FloorTile(i % cols, cols, z) ELSE map[i]]

\* line 90
HorizonOf(rows) == (rows * 55) \div 100

\* lines 89-93: calloc (unchecked), the horizon, the loop's start
FloorAlloc ==
  /\ MainAt("floor")
  /\ \E f \in {"ok", "null"} :
       /\ floorPtr' = f
       /\ floor_map' = IF f = "ok" THEN [i \in Cells |-> 0] ELSE floor_map
  /\ horizon' = HorizonOf(ch)
  /\ row' = HorizonOf(ch) + 1
  /\ pc' = IF HorizonOf(ch) + 1 < ch THEN "floor_loop" ELSE "rawmode"
  /\ UNCHANGED <<geomVars, bufVars, ttyVars, physVars, rendered, nullAccess,
                 inputReady, sigVars, endVars, lineVars>>

\* What a store or load through a null pointer may do: the process dies of
\* SIGSEGV, or the access lands somewhere and the program goes on.
NullDeref(goOn) ==
  /\ nullAccess' = TRUE
  /\ \/ Kill("SIGSEGV") /\ UNCHANGED pc
     \/ goOn /\ UNCHANGED endVars

\* lines 93-102: one row of the floor; the stores go through floor_map unchecked
FloorRow ==
  /\ MainAt("floor_loop")
  /\ LET next == IF row + 1 < ch THEN "floor_loop" ELSE "rawmode" IN
     IF floorPtr = "ok"
       THEN /\ floor_map' = FloorRowFill(floor_map, row, cw, horizon, ch)
            /\ row' = row + 1
            /\ pc' = next
            /\ UNCHANGED <<nullAccess, endVars>>
       ELSE /\ NullDeref(pc' = next)
            /\ row' = IF status' = "running" THEN row + 1 ELSE row
            /\ UNCHANGED floor_map
  /\ UNCHANGED <<geomVars, bufVars, horizon, floorPtr, ttyVars, physVars, rendered,
                 inputReady, sigVars, lineVars>>

(***************************************************************************)
(* main(): terminal set-up and the frame loop                              *)
(***************************************************************************)
\* lines 204-209
RawMode ==
  /\ MainAt("rawmode")
  /\ origSaved' = TRUE
  /\ tios' = "raw"
  /\ pc' = "altscreen"
  /\ UNCHANGED <<geomVars, bufVars, floorVars, screen, cleanups, physVars, rendered,
                 nullAccess, inputReady, sigVars, endVars, lineVars>>

\* lines 211-212
AltScreen ==
  /\ MainAt("altscreen")
  /\ screen' = "alt"
  /\ pc' = "physinit"
  /\ UNCHANGED <<geomVars, bufVars, floorVars, tios, origSaved, cleanups, physVars,
                 rendered, nullAccess, inputReady, sigVars, endVars, lineVars>>

\* lines 216-226
PhysStart(hz) ==
  LET floor_py == IToF(hz * 4)
      mb       == FMul(floor_py, F0_55)
      g        == FDiv(FMul(F2, mb), FMul(fall_frames, fall_frames))
      rv       == FSqrt(FMul(FMul(F2, mb), g))
  IN [pos |-> mb, vel |-> FZero, squash |-> FZero, grav |-> g,
      restart_vel |-> rv, max_bounce |-> mb]

\* lines 214-230
PhysInit ==
  /\ MainAt("physinit")
  /\ phys' = PhysStart(horizon)
  /\ pc' = "poll1"
  /\ UNCHANGED <<geomVars, bufVars, floorVars, ttyVars, impact, rendered, nullAccess,
                 inputReady, sigVars, endVars, lineVars>>

\* line 234: any readable byte ends the loop
PollTop ==
  /\ MainAt("poll1")
  /\ pc' = IF inputReady THEN "cleanup" ELSE "frame"
  /\ UNCHANGED <<geomVars, bufVars, floorVars, ttyVars, physVars, rendered, nullAccess,
                 inputReady, sigVars, endVars, lineVars>>

\* line 242
Landed(p1) == FLe(p1, FZero)

ClampMissing(hit, p1) == p1

\* line 243
Clamp(hit, p1) == IF hit THEN FZero ELSE p1

\* line 244
ImpactSquash(v, rv) == FMin(FMul(FDiv(FAbs(v), rv), F0_5), F0_5)

ReboundUndamped(v, g, rv) ==
  LET d == FAbs(v)
  IN IF FLt(FMul(d, damp), FMul(g, F8)) THEN rv ELSE d

ReboundNoRestart(v, g, rv) == FMul(FAbs(v), damp)

\* lines 245-246: the velocity after an impact at velocity v
Rebound(v, g, rv) ==
  LET d == FMul(FAbs(v), damp)
  IN IF FLt(d, FMul(g, F8)) THEN rv ELSE d

\* lines 240-248
PhysStep(p) ==
  LET v1  == FSub(p.vel, p.grav)
      p1  == FAdd(p.pos, v1)
      hit == Landed(p1)
  IN [p EXCEPT !.pos = Clamp(hit, p1),
               !.vel = IF hit THEN Rebound(v1, p.grav, p.restart_vel) ELSE v1,
               !.squash = FMul(IF hit THEN ImpactSquash(v1, p.restart_vel)
                                      ELSE p.squash, squash_decay)]

\* which branch of lines 242-247 a step from p takes
StepKind(p) ==
  LET v1 == FSub(p.vel, p.grav)
  IN IF ~Landed(FAdd(p.pos, v1)) THEN "none"
     ELSE IF FLt(FMul(FAbs(v1), damp), FMul(p.grav, F8)) THEN "restart"
     ELSE "bounce"

\* lines 237-293: one frame: the framebuffer is cleared, the physics advances, the
\* wireframe is drawn and render() reads fb and floor_map (unchecked) and writes
\* the frame.  The cells the edges set and the bytes render() writes are the
\* subject of SpecFB.
Frame ==
  /\ MainAt("frame")
  /\ phys' = PhysStep(phys)
  /\ impact' = StepKind(phys)
  /\ fb' = [i \in Cells |-> 0]
  /\ IF floorPtr = "ok"
       THEN /\ rendered' = TRUE
            /\ pc' = "poll2"
            /\ UNCHANGED <<nullAccess, endVars>>
       ELSE /\ NullDeref(pc' = "poll2")
            /\ rendered' = (rendered \/ status' = "running")
  /\ UNCHANGED <<geomVars, fbPtr, rbufPtr, rbuf, floorVars, ttyVars, inputReady,
                 sigVars, lineVars>>

\* lines 296-298: the frame delay
FrameWait ==
  /\ MainAt("poll2")
  /\ pc' = IF inputReady THEN "cleanup" ELSE "poll1"
  /\ UNCHANGED <<geomVars, bufVars, floorVars, ttyVars, physVars, rendered, nullAccess,
                 inputReady, sigVars, endVars, lineVars>>

\* line 301
Cleanup ==
  /\ MainAt("cleanup")
  /\ cleanup_terminal
  /\ pc' = "free"
  /\ UNCHANGED <<geomVars, bufVars, floorVars, physVars, rendered, nullAccess,
                 inputReady, sigVars, endVars, lineVars>>

\* lines 302-305
Return0 ==
  /\ MainAt("free")
  /\ Exit("exit0")
  /\ fbPtr' = "unset" /\ rbufPtr' = "unset" /\ floorPtr' = "unset"
  /\ UNCHANGED <<pc, geomVars, fb, rbuf, horizon, floor_map, row, ttyVars, physVars,
                 rendered, nullAccess, inputReady, sigVars, lineVars>>

Startup == InstallHandlers \/ Geometry \/ Alloc \/ FloorAlloc \/ FloorRow
             \/ RawMode \/ AltScreen \/ PhysInit
Loop    == PollTop \/ Frame \/ FrameWait
Leave   == Cleanup \/ Return0
Handler == HandlerCleanup \/ HandlerRaise
Env     == KeyPress \/ \E sig \in Signals : Signal(sig)

Next == Startup \/ Loop \/ Leave \/ Handler \/ Env
Spec == Init /\ [][Next]_vars

\* all steps of the program run as long as they can
SpecFair == Spec /\ WF_vars(Startup \/ Loop \/ Leave \/ Handler)

\* main() while no byte and no signal arrives; the loop never waits for ever
QuietNext == Startup \/ Loop
SpecQuiet == Init /\ [][QuietNext]_vars /\ WF_vars(QuietNext)

\* compute_floor alone: main() at line 201, over a wider range of terminal sizes
InitFloor ==
  /\ pc = "floor"
  /\ ws \in [ok : {TRUE}, col : MinCols .. MaxFloorCols, row : MinRows .. MaxFloorRows]
  /\ cw = ws.col /\ ch = ws.row
  /\ fbPtr = "ok" /\ rbufPtr = "ok" /\ fb = [i \in 0 .. (ws.col * ws.row - 1) |-> 0]
  /\ disp = [s \in Signals |-> "handler"]
  /\ InitCommon

FloorNext == FloorAlloc \/ FloorRow
SpecFloor == InitFloor /\ [][FloorNext]_vars

(***************************************************************************)
(* The dot framebuffer: fb_clear, fb_set, draw_line                        *)
(***************************************************************************)
\* line 64
fb_clear == [i \in Cells |-> 0]

InBoundsNoRight(x, y) == ~(x < 0 \/ y < 0 \/ y >= ph)

\* line 67, negated
InBounds(x, y) == ~(x < 0 \/ x >= pw \/ y < 0 \/ y >= ph)

\* lines 68-71: bits[x & 1][y & 3]
bits == << <<1, 2, 4, 64>>, <<8, 16, 32, 128>> >>

\* C's integer division truncates
CDiv(a, b) == IF a >= 0 THEN a \div b ELSE -((-a) \div b)

\* byte | bit, for a single bit
OrBit(byte, bit) == IF (byte \div bit) % 2 = 1 THEN byte ELSE byte + bit

\* lines 66-73, on a framebuffer state st = [fb, overrun]: a store outside the
\* array is recorded, not performed
fb_set(st, x, y) ==
  IF ~InBounds(x, y) THEN st
  ELSE LET idx == CDiv(y, 4) * cw + CDiv(x, 2)
           bit == bits[(x % 2) + 1][(y % 4) + 1]
       IN IF idx \in DOMAIN st.fb
            THEN [st EXCEPT !.fb[idx] = OrBit(st.fb[idx], bit)]
            ELSE [st EXCEPT !.overrun = TRUE]

AtEndX(x, y, x1, y1) == x = x1

\* line 81
AtEnd(x, y, x1, y1) == x = x1 /\ y = y1

\* line 83
StepX(e2, dy) == e2 >= dy

\* line 84
StepY(e2, dx) == e2 <= dx

\* lines 79-85: the loop from (x, y) with error term err towards (x1, y1), with
\* `left` more passes allowed.  Every pass moves x by sx or y by sy, never back,
\* so a walk of more than dx + |dy| moves has passed the end point for good:
\* running out of passes is the loop that never ends.  (Reading s1.done first
\* has TLC work out each pass before it starts the next.)
RECURSIVE LineLoop(_, _, _, _, _, _, _, _)
LineLoop(st, x, y, err, x1, y1, d, left) ==
  LET st1 == fb_set([fb |-> st.fb, overrun |-> st.overrun], x, y)
      s1  == [fb |-> st1.fb, overrun |-> st1.overrun,
              calls |-> Append(st.calls, <<x, y>>), done |-> FALSE]
  IN IF s1.done THEN s1
     ELSE IF AtEnd(x, y, x1, y1) THEN [s1 EXCEPT !.done = TRUE]
     ELSE IF left = 0 THEN s1
     ELSE LET e2 == 2 * err
              mx == StepX(e2, d.dy)
              my == StepY(e2, d.dx)
          IN LineLoop(s1,
                      IF mx THEN x + d.sx ELSE x,
                      IF my THEN y + d.sy ELSE y,
                      err + (IF mx THEN d.dy ELSE 0) + (IF my THEN d.dx ELSE 0),
                      x1, y1, d, left - 1)

Abs(n) == IF n < 0 THEN -n ELSE n

\* lines 75-86
draw_line(f, x0, y0, x1, y1) ==
  LET d == [dx |-> Abs(x1 - x0), sx |-> IF x0 < x1 THEN 1 ELSE -1,
            dy |-> -Abs(y1 - y0), sy |-> IF y0 < y1 THEN 1 ELSE -1]
  IN LineLoop([fb |-> f, overrun |-> FALSE, calls |-> <<>>, done |-> FALSE],
              x0, y0, d.dx + d.dy, x1, y1, d, d.dx - d.dy)

(***************************************************************************)
(* render                                                                  *)
(***************************************************************************)
\* the strings render() puts, as bytes
Home     == <<27, 91, 72>>                                   \* "\033[H"
SgrReset == <<27, 91, 48, 109>>                              \* "\033[0m"
SgrDark  == <<27, 91, 52, 56, 59, 53, 59, 50, 51, 54, 109>>  \* "\033[48;5;236m"
SgrLight == <<27, 91, 52, 56, 59, 53, 59, 50, 53, 50, 109>>  \* "\033[48;5;252m"
SgrDots  == <<27, 91, 48, 59, 57, 54, 109>>                  \* "\033[0;96m"

\* line 118
ModeOf(f, fm, idx) == IF f[idx] # 0 THEN 3 ELSE fm[idx]

StyleAlways(mode, prev) == TRUE

\* line 120
StyleNeeded(mode, prev) == mode # prev

\* lines 121-126
SgrOf(mode) ==
  CASE mode = 0 -> <<SgrReset>>
    [] mode = 1 -> <<SgrDark>>
    [] mode = 2 -> <<SgrLight>>
    [] mode = 3 -> <<SgrDots>>
    [] OTHER    -> <<>>

\* lines 130-137: the braille glyph U+2800 + byte in UTF-8, or a space
Glyph(byte) ==
  IF byte # 0
    THEN LET cp == 10240 + byte
         IN << <<224 + (cp \div 4096)>>, <<128 + ((cp \div 64) % 64)>>, <<128 + (cp % 64)>> >>
    ELSE << <<32>> >>

\* lines 116-138: the cells x .. cw-1 of row y, the style before them being prev
RECURSIVE RenderCells(_, _, _, _, _)
RenderCells(f, fm, y, x, prev) ==
  IF x >= cw THEN <<>>
  ELSE LET idx  == y * cw + x
           mode == ModeOf(f, fm, idx)
           sgr  == IF StyleNeeded(mode, prev) THEN SgrOf(mode) ELSE <<>>
       IN sgr \o Glyph(f[idx]) \o RenderCells(f, fm, y, x + 1, mode)

\* lines 112-142: the output up to and including the line feed of row y
RenderLine(f, fm, y) ==
  (IF y = 0 THEN <<Home>> ELSE <<>>)
    \o RenderCells(f, fm, y, 0, -1)
    \o <<SgrReset>>
    \o (IF y < ch - 1 THEN << <<10>> >> ELSE <<>>)

\* lines 110-146: what render() writes, line by line, each line a sequence of
\* chunks, one chunk for each string or byte put
render(f, fm) == [k \in 1 .. ch |-> RenderLine(f, fm, k - 1)]

(***************************************************************************)
(* One pass of the loop body: framebuffer cleared, an edge drawn, rendered  *)
(***************************************************************************)
\* the floor compute_floor leaves for a terminal of cols x rows
FloorField(cols, rows) ==
  [i \in 0 .. (cols * rows - 1) |->
     IF i \div cols > HorizonOf(rows)
       THEN FloorTile(i % cols, cols, FloorZ(i \div cols, HorizonOf(rows), rows))
       ELSE 0]

\* the coordinates an edge may end at: the first, the middle and the last dot
\* of the framebuffer's width or height, and up to MaxOff dots outside it
EndX == ((-MaxOff) .. 0) \cup {MinCols}
          \cup ((MinCols * 2 - 1) .. (MinCols * 2 - 1 + MaxOff))
EndY == ((-MaxOff) .. 0) \cup {MinRows * 2}
          \cup ((MinRows * 4 - 1) .. (MinRows * 4 - 1 + MaxOff))

\* the edges drawn: between those ends, and along the top dot row from the
\* corner to every dot of it
Edges ==
  (EndX \X EndY \X EndX \X EndY)
    \cup {<<0, 0, n, 0>> : n \in 0 .. (MinCols * 2 - 1)}

\* The frame loop of a MinCols x MinRows terminal at line 237, over the floor
\* compute_floor made or over a floor of sky alone.
InitFB ==
  /\ pc = "fb_clear"
  /\ ws = [ok |-> TRUE, col |-> MinCols, row |-> MinRows]
  /\ cw = MinCols /\ ch = MinRows
  /\ fbPtr = "ok" /\ rbufPtr = "ok" /\ floorPtr = "ok"
  /\ fb = [i \in 0 .. (MinCols * MinRows - 1) |-> 0]
  /\ floor_map \in {FloorField(MinCols, MinRows),
                    [i \in 0 .. (MinCols * MinRows - 1) |-> 0]}
  /\ horizon = HorizonOf(MinRows) /\ row = MinRows
  /\ rbuf = <<>>
  /\ screen = "alt" /\ tios = "raw" /\ origSaved = TRUE /\ cleanups = 0
  /\ phys = PhysStart(HorizonOf(MinRows)) /\ impact = "none"
  /\ rendered = FALSE /\ nullAccess = FALSE
  /\ inputReady = FALSE
  /\ disp = [s \in Signals |-> "handler"] /\ hstack = <<>>
  /\ status = "running" /\ killsig = "none"
  /\ calls = <<>> /\ ends = <<0, 0, 0, 0>> /\ lineDone = TRUE /\ fbOverrun = FALSE

fbRest == <<geomVars, fbPtr, rbufPtr, floorVars, ttyVars, physVars, nullAccess,
            inputReady, sigVars, endVars>>

\* line 237
FbClear ==
  /\ pc = "fb_clear"
  /\ fb' = fb_clear
  /\ pc' = "draw_line"
  /\ UNCHANGED <<fbRest, rbuf, rendered, lineVars>>

\* lines 285-287, for one edge
DrawLine ==
  /\ pc = "draw_line"
  /\ \E e \in Edges :
       LET r == draw_line(fb, e[1], e[2], e[3], e[4]) IN
         /\ fb' = r.fb
         /\ calls' = r.calls
         /\ ends' = e
         /\ lineDone' = r.done
         /\ fbOverrun' = r.overrun
  /\ pc' = "render"
  /\ UNCHANGED <<fbRest, rbuf, rendered>>

\* line 289
Render ==
  /\ pc = "render"
  /\ rbuf' = render(fb, floor_map)
  /\ rendered' = TRUE
  /\ pc' = "poll2"
  /\ UNCHANGED <<fbRest, fb, lineVars>>

FBNext == FbClear \/ DrawLine \/ Render
SpecFB == InitFB /\ [][FBNext]_vars

(***************************************************************************)
(* Properties                                                              *)
(***************************************************************************)
InLoop     == pc \in {"poll1", "frame", "poll2"}
AltEntered == pc \in {"physinit", "poll1", "frame", "poll2", "cleanup", "free"}
LoopEntered == pc \in {"poll1", "frame", "poll2", "cleanup", "free"}
Restored   == screen = "main" /\ tios = "orig"

\* C1: in the frame loop, from the initial bounce state (pos = max_bounce, vel = 0,
\* squash = 0) on, the position is never negative and the squash factor stays
\* within [0, 0.5].
C1_PosAndSquashInRange ==
  /\ (pc = "poll1" /\ ~rendered /\ ~nullAccess) =>
        (phys.pos = phys.max_bounce /\ phys.vel = FZero /\ phys.squash = FZero)
  /\ InLoop => /\ FLe(FZero, phys.pos)
               /\ FLe(FZero, phys.squash)
               /\ FLe(phys.squash, F0_5)

C1_Witness ==
  /\ pc = "poll2" /\ impact = "bounce"
  /\ phys.pos = FZero /\ FLt(FZero, phys.squash)

\* |den * r - num * |v|| <= den units in the last place of r
WithinUlp(r, v, num, den) ==
  LET sh == v.e - r.e
      a  == den * r.m
      b  == num * v.m
  IN /\ sh \in {0, 1}
     /\ IF sh = 0 THEN a - b <= den /\ b - a <= den
                  ELSE a - 2 * b <= den /\ 2 * b - a <= den

\* C2: a step that brings the position to <= 0 leaves an upward velocity of 0.82
\* times the speed at the impact (to one unit in the last place), or the restart
\* velocity exactly when that product is below gravity x 8; any other step only
\* takes gravity off the velocity.
C2_ImpactRule ==
  [][ (pc = "frame" /\ pc' = "poll2") =>
        LET v1  == FSub(phys.vel, phys.grav)
            hit == FLe(FAdd(phys.pos, v1), FZero)
            d   == FMul(FAbs(v1), F0_82)
        IN IF hit
             THEN /\ FLt(FZero, phys'.vel)
                  /\ IF FLt(d, FMul(phys.grav, F8))
                       THEN phys'.vel = phys.restart_vel
                       ELSE WithinUlp(phys'.vel, v1, 41, 50)
             ELSE phys'.vel = v1 ]_vars

C2_Witness ==
  /\ pc = "poll2" /\ impact = "bounce"
  /\ phys.vel # phys.restart_vel /\ FLt(FZero, phys.vel)

\* C3: once the alternate screen is entered, every exit (return from main, death
\* by SIGTERM or SIGINT) has run cleanup_terminal exactly once.
C3_CleanupExactlyOnce ==
  (Ended /\ AltEntered /\ killsig # "SIGSEGV") => cleanups = 1

C5_StartupFailureIsClean ==
  (\/ ~ws.ok \/ ws.col < MinCols \/ ws.row < MinRows
   \/ "null" \in {fbPtr, rbufPtr, floorPtr})
  => /\ ~rendered
     /\ ~nullAccess
     /\ status # "exit0"
     /\ pc \in {"geometry", "alloc", "floor", "sigaction"}

\* the dark/light alternations along one row of the floor
Transitions(rw) ==
  Cardinality({c \in 0 .. (cw - 2) :
                 floor_map[rw * cw + c] # floor_map[rw * cw + c + 1]})

\* a tile of row rw is at least one column wide
Resolved(rw) == cw * (rw - horizon) > 8 * (ch - horizon)

FloorDone == pc = "rawmode" /\ floorPtr = "ok"

\* C9 as stated: every row below the horizon alternates, and the period does not
\* grow (the alternations do not get fewer) as the row index increases.
C9_PeriodShrinksDownward ==
  FloorDone =>
    \A r \in (horizon + 1) .. (ch - 1) :
      /\ Transitions(r) >= 1
      /\ \A r2 \in (r + 1) .. (ch - 1) : Transitions(r2) >= Transitions(r)

\* C9 amended: rows down to the horizon are sky, the rows below hold dark and light
\* tiles only, and among the rows whose tiles are at least a column wide each row
\* alternates and the alternations do not get more (the period does not shrink: it
\* grows) as the row index increases.
C9_PeriodGrowsDownward ==
  FloorDone =>
    /\ horizon = (ch * 55) \div 100
    /\ \A i \in Cells : IF i \div cw <= horizon THEN floor_map[i] = 0
                                                ELSE floor_map[i] \in {1, 2}
    /\ \A r \in (horizon + 1) .. (ch - 1) :
         Resolved(r) =>
           /\ Transitions(r) >= 1
           /\ \A r2 \in (r + 1) .. (ch - 1) : Transitions(r2) <= Transitions(r)

C9_Witness ==
  /\ FloorDone
  /\ \E r \in (horizon + 1) .. (ch - 2) :
       Resolved(r) /\ Transitions(r + 1) < Transitions(r)

\* C10: while no byte and no signal arrives, impacts keep coming, each leaves an
\* upward velocity of at least gravity x 8, and the bounce never comes to rest at
\* position 0 with velocity 0.
C10_NeverRests ==
  /\ [](InLoop => ~(phys.pos = FZero /\ phys.vel = FZero))
  /\ []((pc = "poll2" /\ impact # "none") =>
          (FLt(FZero, phys.vel) /\ FLe(FMul(phys.grav, F8), phys.vel)))
  /\ (<>Ended \/ []<>(pc = "poll2" /\ impact # "none"))

C10_Witness == pc = "poll2" /\ impact = "restart" /\ phys.pos = FZero

\* the dot (x, y) of the framebuffer is set
Dot(x, y) == (fb[(y \div 4) * cw + (x \div 2)] \div bits[(x % 2) + 1][(y % 4) + 1]) % 2 = 1

\* the dots of the framebuffer, set or not
AllDots == (0 .. (cw * 2 - 1)) \X (0 .. (ch * 4 - 1))

DotsSet == {p \in AllDots : Dot(p[1], p[2])}

\* the points the last draw_line passed to fb_set
Passed == {calls[i] : i \in DOMAIN calls}

LineDrawn == pc \in {"render", "poll2"}

\* C6: draw_line ends; the first point it passes to fb_set is (x0, y0) and the
\* last is (x1, y1); from a point of the framebuffer to itself it sets one dot, in
\* one cell; from (0,0) to (N,0) inside the framebuffer it sets the N+1 dots
\* (0,0) .. (N,0) and no other.
C6_LineStepping ==
  LineDrawn =>
    /\ lineDone
    /\ calls # <<>>
    /\ calls[1] = <<ends[1], ends[2]>>
    /\ calls[Len(calls)] = <<ends[3], ends[4]>>
    /\ (ends[1] = ends[3] /\ ends[2] = ends[4]) =>
         /\ Len(calls) = 1
         /\ (<<ends[1], ends[2]>> \in AllDots) =>
              /\ DotsSet = {<<ends[1], ends[2]>>}
              /\ Cardinality({i \in Cells : fb[i] # 0}) = 1
    /\ (ends[1] = 0 /\ ends[2] = 0 /\ ends[4] = 0 /\ ends[3] \in 0 .. (cw * 2 - 1)) =>
         /\ DotsSet = {<<x, 0>> : x \in 0 .. ends[3]}
         /\ Cardinality(DotsSet) = ends[3] + 1

C6_Witness ==
  /\ LineDrawn /\ ends = <<0, 0, cw * 2 - 1, 0>>
  /\ Cardinality(DotsSet) = cw * 2

\* C7: draw_line never stores outside the cw*ch framebuffer; of the points it
\* passes to fb_set, those outside 0 <= x < pw, 0 <= y < ph change nothing and each
\* one inside sets its one bit of cell (y/4, x/2) and nothing else, the eight
\* dots of a cell having eight different bits: the dots set are exactly the
\* points passed that lie inside, none when the whole segment lies outside.
C7_ClippingByOmission ==
  LineDrawn =>
    /\ ~fbOverrun
    /\ DOMAIN fb = Cells
    /\ \A i \in Cells : fb[i] \in 0 .. 255
    /\ Cardinality({bits[a][b] : a \in 1 .. 2, b \in 1 .. 4}) = 8
    /\ \A a \in 1 .. 2, b \in 1 .. 4 : bits[a][b] \in {1, 2, 4, 8, 16, 32, 64, 128}
    /\ DotsSet = Passed \cap AllDots
    /\ (Passed \cap AllDots = {}) => (\A i \in Cells : fb[i] = 0)

C7_Witness ==
  /\ LineDrawn
  /\ Passed \cap AllDots # {}
  /\ Passed \ AllDots # {}
  /\ DotsSet = Passed \cap AllDots

\* a chunk of the output is a style sequence
IsSgr(c) == Len(c) > 1 /\ c[1] = 27 /\ c[Len(c)] = 109

\* a chunk of the output begins a cell: a space or the first byte of a glyph
IsCellStart(c) == c = <<32>> \/ c = <<226>>

SgrAt(line) == {i \in DOMAIN line : IsSgr(line[i])}

\* the style sequences of a line that stand right before a cell
SgrBeforeCell(line) == {i \in SgrAt(line) : i < Len(line) /\ IsCellStart(line[i + 1])}

\* the column of the cell that begins at chunk i of a line
CellNo(line, i) == Cardinality({j \in 1 .. (i - 1) : IsCellStart(line[j])})

\* the style of the cell at row y, column x: 3 when it holds dots, else its floor class
StyleOf(y, x) == IF fb[y * cw + x] # 0 THEN 3 ELSE floor_map[y * cw + x]

\* row y holds no dots and is all sky
BlankSky(y) == \A x \in 0 .. (cw - 1) : fb[y * cw + x] = 0 /\ floor_map[y * cw + x] = 0

FrameOut == pc = "poll2" /\ rendered

\* C8 as stated: a row without dots over sky holds no style sequence beyond the
\* initial reset.
C8_OneSequencePerBlankRow ==
  FrameOut =>
    \A y \in 0 .. (ch - 1) : BlankSky(y) => Cardinality(SgrAt(rbuf[y + 1])) = 1

\* C8 amended: within each row a style sequence stands before a cell only when
\* the cell is the first of its row or its style differs from the cell before it;
\* a row without dots over sky holds, before its cells, the initial reset alone,
\* and every row ends with one more reset sequence after its last cell.
C8_StyleRunCompression ==
  FrameOut =>
    /\ Len(rbuf) = ch
    /\ \A y \in 0 .. (ch - 1) :
         LET line == rbuf[y + 1]
             last == IF y < ch - 1 THEN Len(line) - 1 ELSE Len(line)
         IN /\ Cardinality({j \in DOMAIN line : IsCellStart(line[j])}) = cw
            /\ \A i \in SgrBeforeCell(line) :
                 LET x == CellNo(line, i + 1)
                 IN x = 0 \/ StyleOf(y, x) # StyleOf(y, x - 1)
            /\ SgrAt(line) \ SgrBeforeCell(line) = {last}
            /\ BlankSky(y) => Cardinality(SgrBeforeCell(line)) = 1

C8_Witness ==
  /\ FrameOut
  /\ \E y \in 0 .. (ch - 1) : BlankSky(y) /\ Cardinality(SgrAt(rbuf[y + 1])) = 2
  /\ \E y \in 0 .. (ch - 1) : Cardinality(SgrBeforeCell(rbuf[y + 1])) > 2

\* every float of the bounce state is zero or a normal binary32 number
FloatsNormal ==
  \A f \in {phys.pos, phys.vel, phys.squash, phys.grav, phys.restart_vel} :
     f.m = 0 \/ (f.m >= P23 /\ f.m < P24 /\ f.e >= -149 /\ f.e <= 104)

====
